---- MODULE Spec2Model ----
(***************************************************************************)
(* Navigation / teleportation state machine of the portfolio scene.       *)
(*                                                                         *)
(* The Scene State Store is the SceneProvider component: nine useState    *)
(* cells and one useCallback per operation.  A callback reads the cells   *)
(* it names in its dependency list through the closure of the render that *)
(* created it, and writes through the setters.  Every operator below      *)
(* takes the store record s and, where the callback reads a cell, the     *)
(* closure c of the render the callback comes from.                       *)
(***************************************************************************)
EXTENDS Naturals, Sequences, FiniteSets, TLC

\* JavaScript null (corridor, no overlay, no phase, no target)
NULL == "null"

\* ---- bounds ----
\* number of registry rooms the environment uses as arguments
MaxRooms == 2
\* number of distinct overlay payloads the environment opens
MaxOverlay == 1

\* ---- data ----
\* keys of the Room Registry, in source order
DOOR_POSITIONS_Z == <<"gallery", "studio", "about", "contact">>

Min(a, b) == IF a < b THEN a ELSE b

\* rooms used as operation arguments
InputRooms == { DOOR_POSITIONS_Z[i] : i \in 1..Min(MaxRooms, Len(DOOR_POSITIONS_Z)) }

\* overlay payloads (opaque content items)
OverlayItems == { "item" \o ToString(i) : i \in 1..MaxOverlay }

\* values of teleportPhase
TeleportPhase == {"closing", "teleporting", "opening", NULL}

VARIABLES
    scene,      \* the nine useState cells of SceneProvider
    lastOp,     \* history: the Store operation of the last step, its argument,
                \* and whether the operation before it was openOverlay
    script,     \* history: progress of the scripted teleport sequence of section 8
    inFlight,   \* history: a teleport was accepted and has not ended yet
    timeline,   \* PaperTransition: timelineRef, the animation in progress
    hasPositioned,  \* TeleportRoom: the one-shot guard hasPositioned.current
    camera,     \* TeleportRoom: the room whose anchor the camera was last put at
    timers,     \* TeleportRoom: the pending setTimeout callbacks
    door,       \* door mechanism: the room whose door-open visual is running
    roomReady,  \* destination room: mounted, readiness not yet signalled
    positioned, \* history: camera positionings since the last accepted teleportTo
    rooms,      \* the room components: frame counter and ready latch of each
    goal,       \* history: the room of the last teleportTo the composed system accepted
    isMenuOpen, \* NavigationUI: the map panel is open
    section,    \* DoorSection: a corridor door, its animations and its timer
    perf        \* PerformanceProvider: tier, isDetecting, the device read by
                \* detectTier, and the downgradeTier calls since detection

sysVars == <<timeline, hasPositioned, camera, timers, door, roomReady, positioned,
             rooms, goal, section, perf>>

vars == <<scene, lastOp, script, inFlight,
          timeline, hasPositioned, camera, timers, door, roomReady, positioned,
          rooms, goal, isMenuOpen, section, perf>>

\* ---- the Store: initial values of the useState cells ----
InitScene ==
    [ currentRoom      |-> NULL,
      hasEntered       |-> FALSE,
      exitRequested    |-> FALSE,
      overlayContent   |-> NULL,
      teleportTarget   |-> NULL,
      isTeleporting    |-> FALSE,
      teleportPhase    |-> NULL,
      pendingDoorClick |-> NULL,
      isFastTeleport   |-> FALSE ]

\* the cells a callback created by the render of store s has captured
\* (the dependency lists of teleportTo, completeTeleport, signalRoomReady)
Closure(s) ==
    [ isTeleporting  |-> s.isTeleporting,
      currentRoom    |-> s.currentRoom,
      teleportTarget |-> s.teleportTarget,
      isFastTeleport |-> s.isFastTeleport ]

\* ---- the Store operations ----
\* mutant: the teleport cleanup of enterRoom forgets setIsTeleporting(false)
enterRoom_KeepsTeleporting(s, roomId) ==
    [s EXCEPT !.currentRoom = roomId,
              !.exitRequested = FALSE,
              !.overlayContent = NULL,
              !.pendingDoorClick = NULL]

\* mutant: enterRoom as it was before teleports: no setPendingDoorClick(null)
enterRoom_KeepsPending(s, roomId) ==
    [s EXCEPT !.currentRoom = roomId,
              !.exitRequested = FALSE,
              !.overlayContent = NULL,
              !.isTeleporting = FALSE]

\* mutant: enterRoom also runs setTeleportPhase(null)
enterRoom_ClearsPhase(s, roomId) ==
    [s EXCEPT !.currentRoom = roomId,
              !.exitRequested = FALSE,
              !.overlayContent = NULL,
              !.isTeleporting = FALSE,
              !.pendingDoorClick = NULL,
              !.teleportPhase = NULL]

enterRoom(s, roomId) ==
    [s EXCEPT !.currentRoom = roomId,
              !.exitRequested = FALSE,
              !.overlayContent = NULL,
              !.isTeleporting = FALSE,
              !.pendingDoorClick = NULL]

\* mutant: exitRoom without setOverlayContent(null)
exitRoom_KeepsOverlay(s) ==
    [s EXCEPT !.currentRoom = NULL,
              !.exitRequested = FALSE]

\* mutant: exitRoom also runs setHasEntered(false)
exitRoom_ResetsEntered(s) ==
    [s EXCEPT !.currentRoom = NULL,
              !.exitRequested = FALSE,
              !.overlayContent = NULL,
              !.hasEntered = FALSE]

exitRoom(s) ==
    [s EXCEPT !.currentRoom = NULL,
              !.exitRequested = FALSE,
              !.overlayContent = NULL]

\* mutant: requestExit without setOverlayContent(null)
requestExit_KeepsOverlay(s) == [s EXCEPT !.exitRequested = TRUE]

requestExit(s) ==
    [s EXCEPT !.exitRequested = TRUE,
              !.overlayContent = NULL]

clearExitRequest(s) == [s EXCEPT !.exitRequested = FALSE]

markEntered(s) == [s EXCEPT !.hasEntered = TRUE]

openOverlay(s, content) == [s EXCEPT !.overlayContent = content]

closeOverlay(s) == [s EXCEPT !.overlayContent = NULL]

\* mutant: the guard forgets isTeleporting
teleportToRejects_SameRoomOnly(c, roomId) == roomId = c.currentRoom

\* mutant: the guard forgets the same-room test
teleportToRejects_TeleportingOnly(c, roomId) == c.isTeleporting

\* the guard of teleportTo: true when the call returns without effect
teleportToRejects(c, roomId) == c.isTeleporting \/ roomId = c.currentRoom

\* mutant: teleportTo without setOverlayContent(null)
teleportTo_KeepsOverlay(s, c, roomId) ==
    IF teleportToRejects(c, roomId)
    THEN s
    ELSE [s EXCEPT !.teleportTarget = roomId,
                   !.isTeleporting = TRUE,
                   !.isFastTeleport = TRUE,
                   !.teleportPhase = "closing"]

\* mutant: teleportTo without setIsFastTeleport(true)
teleportTo_NoFast(s, c, roomId) ==
    IF teleportToRejects(c, roomId)
    THEN s
    ELSE [s EXCEPT !.teleportTarget = roomId,
                   !.isTeleporting = TRUE,
                   !.teleportPhase = "closing",
                   !.overlayContent = NULL]

teleportTo(s, c, roomId) ==
    IF teleportToRejects(c, roomId)
    THEN s
    ELSE [s EXCEPT !.teleportTarget = roomId,
                   !.isTeleporting = TRUE,
                   !.isFastTeleport = TRUE,
                   !.teleportPhase = "closing",
                   !.overlayContent = NULL]

startTeleportTransition(s) == [s EXCEPT !.teleportPhase = "teleporting"]

openTeleportTransition(s) == [s EXCEPT !.teleportPhase = "opening"]

\* mutant: completeTeleport also runs setTeleportPhase(null)
completeTeleport_ClearsPhase(s, c) ==
    [s EXCEPT !.pendingDoorClick = c.teleportTarget,
              !.teleportTarget = NULL,
              !.teleportPhase = NULL]

\* mutant: completeTeleport also runs setIsTeleporting(false)
completeTeleport_ClearsTeleporting(s, c) ==
    [s EXCEPT !.pendingDoorClick = c.teleportTarget,
              !.teleportTarget = NULL,
              !.isTeleporting = FALSE]

\* mutant: completeTeleport also runs setTeleportPhase('opening')
completeTeleport_OpensPaper(s, c) ==
    [s EXCEPT !.pendingDoorClick = c.teleportTarget,
              !.teleportTarget = NULL,
              !.teleportPhase = "opening"]

\* mutant: completeTeleport finalising the room itself
completeTeleport_EntersRoom(s, c) ==
    [s EXCEPT !.pendingDoorClick = c.teleportTarget,
              !.teleportTarget = NULL,
              !.currentRoom = c.teleportTarget]

completeTeleport(s, c) ==
    [s EXCEPT !.pendingDoorClick = c.teleportTarget,
              !.teleportTarget = NULL]

\* mutant: signalRoomReady without the isFastTeleport test
signalRoomReady_Unconditional(s, c) ==
    [s EXCEPT !.teleportPhase = "opening",
              !.isFastTeleport = FALSE]

signalRoomReady(s, c) ==
    IF c.isFastTeleport
    THEN [s EXCEPT !.teleportPhase = "opening",
                   !.isFastTeleport = FALSE]
    ELSE s

\* mutant: finishPaperOpen also runs setPendingDoorClick(null)
finishPaperOpen_ClearsPending(s) ==
    [s EXCEPT !.teleportPhase = NULL,
              !.pendingDoorClick = NULL]

finishPaperOpen(s) == [s EXCEPT !.teleportPhase = NULL]

\* mutant: cancelTeleport without setTeleportPhase(null)
cancelTeleport_KeepsPhase(s) ==
    [s EXCEPT !.teleportTarget = NULL,
              !.isTeleporting = FALSE,
              !.pendingDoorClick = NULL,
              !.isFastTeleport = FALSE]

\* mutant: cancelTeleport without setIsFastTeleport(false)
cancelTeleport_KeepsFast(s) ==
    [s EXCEPT !.teleportTarget = NULL,
              !.isTeleporting = FALSE,
              !.teleportPhase = NULL,
              !.pendingDoorClick = NULL]

cancelTeleport(s) ==
    [s EXCEPT !.teleportTarget = NULL,
              !.isTeleporting = FALSE,
              !.teleportPhase = NULL,
              !.pendingDoorClick = NULL,
              !.isFastTeleport = FALSE]

\* the derived field of the context value
isInRoom(s) == s.currentRoom # NULL

\* ---- history variables ----
\* teleportTo(roomId) called in store s is accepted (it passes the guard)
Accepted(s, roomId) == ~teleportToRejects(Closure(s), roomId)

\* a teleport has ended: phase back to None with isTeleporting false
Ended(s) == s.teleportPhase = NULL /\ ~s.isTeleporting

\* the scripted sequence of section 8: teleportTo(X) from a quiescent store,
\* startTeleportTransition, completeTeleport, signalRoomReady,
\* finishPaperOpen, enterRoom(X); script.pos counts the calls done so far
NoScript == [pos |-> 0, room |-> NULL]

ScriptNext(s, op) ==
    IF op.name = "teleportTo" /\ Ended(s) /\ op.arg # s.currentRoom
    THEN [pos |-> 1, room |-> op.arg]
    ELSE IF \/ script.pos = 1 /\ op.name = "startTeleportTransition"
            \/ script.pos = 2 /\ op.name = "completeTeleport"
            \/ script.pos = 3 /\ op.name = "signalRoomReady"
            \/ script.pos = 4 /\ op.name = "finishPaperOpen"
            \/ script.pos = 5 /\ op.name = "enterRoom" /\ op.arg = script.room
    THEN [script EXCEPT !.pos = script.pos + 1]
    ELSE NoScript

InFlightNext(s, op, t) ==
    IF op.name = "cancelTeleport" THEN FALSE
    ELSE IF op.name = "teleportTo" /\ Accepted(s, op.arg) THEN TRUE
    ELSE IF Ended(t) THEN FALSE
    ELSE inFlight

\* one Store operation op takes the store to t; the provider re-renders
\* before the next event, so the next callback closes over t
Step(op, t) ==
    /\ scene' = t
    /\ lastOp' = [op EXCEPT !.afterOverlay = (lastOp.name = "openOverlay")]
    /\ script' = ScriptNext(scene, op)
    /\ inFlight' = InFlightNext(scene, op, t)

Op(name, arg) == [name |-> name, arg |-> arg, afterOverlay |-> FALSE]

\* NavigationUI's effect that does not close the panel
NavigationUIEffect_Off(s, t, open) == open

\* NavigationUI's effect after the store went from s to t while the panel
\* was open or not: it runs when isInRoom or isTeleporting changed and
\* closes the panel when one of them is true
NavigationUIEffect(s, t, open) ==
    IF /\ isInRoom(t) # isInRoom(s) \/ t.isTeleporting # s.isTeleporting
       /\ isInRoom(t) \/ t.isTeleporting
    THEN FALSE
    ELSE open

\* a Store operation called on the Store alone: the collaborators other
\* than NavigationUI stand still
StoreStep(op, t) ==
    /\ Step(op, t)
    /\ isMenuOpen' = NavigationUIEffect(scene, t, isMenuOpen)
    /\ UNCHANGED sysVars

\* ---- actions: one per Store operation ----
EnterRoom == \E roomId \in InputRooms :
    StoreStep(Op("enterRoom", roomId), enterRoom(scene, roomId))

ExitRoom == StoreStep(Op("exitRoom", NULL), exitRoom(scene))

RequestExit == StoreStep(Op("requestExit", NULL), requestExit(scene))

ClearExitRequest == StoreStep(Op("clearExitRequest", NULL), clearExitRequest(scene))

MarkEntered == StoreStep(Op("markEntered", NULL), markEntered(scene))

OpenOverlay == \E content \in OverlayItems :
    StoreStep(Op("openOverlay", content), openOverlay(scene, content))

CloseOverlay == StoreStep(Op("closeOverlay", NULL), closeOverlay(scene))

TeleportTo == \E roomId \in InputRooms \cup {NULL} :
    StoreStep(Op("teleportTo", roomId), teleportTo(scene, Closure(scene), roomId))

StartTeleportTransition ==
    StoreStep(Op("startTeleportTransition", NULL), startTeleportTransition(scene))

OpenTeleportTransition ==
    StoreStep(Op("openTeleportTransition", NULL), openTeleportTransition(scene))

CompleteTeleport ==
    StoreStep(Op("completeTeleport", NULL), completeTeleport(scene, Closure(scene)))

SignalRoomReady ==
    StoreStep(Op("signalRoomReady", NULL), signalRoomReady(scene, Closure(scene)))

FinishPaperOpen == StoreStep(Op("finishPaperOpen", NULL), finishPaperOpen(scene))

CancelTeleport == StoreStep(Op("cancelTeleport", NULL), cancelTeleport(scene))

\* the rooms DOOR_POSITIONS_Z has a key for
Registry == { DOOR_POSITIONS_Z[i] : i \in 1..Len(DOOR_POSITIONS_Z) }

\* a room component that is not mounted
Unmounted ==
    [ mounted          |-> FALSE,
      frameCount       |-> 0,
      hasSignaledReady |-> FALSE,
      frames           |-> 0,
      readyCalls       |-> 0 ]

\* no animation in progress
NoTimeline == [kind |-> "none", target |-> NULL]

\* PerformanceProvider's TIERS
TIERS == {"HIGH", "MEDIUM", "LOW"}

\* PerformanceProvider after its first render; 0 stands for a navigator
\* property the browser does not define
Undetected ==
    [ tier |-> "HIGH", isDetecting |-> TRUE,
      isMobile |-> FALSE, cores |-> 0, memory |-> 0, calls |-> 0 ]

\* a DoorSection after its first render: closed, nothing running. tween is
\* the gsap animation in progress; sawOpen fields hold the isOpen that the
\* closeDoor reachable from a callback captured: openDoorSaw for the
\* openDoor of the latest render, clickSaw for the openDoor the latest
\* handleClick calls, tweenSaw for the openDoor of the running entry,
\* timerSaw for the closeDoor of the pending auto-close timer; accepted and
\* entered count the accepted clicks on the closed door and the onEnter
\* calls
ClosedDoor ==
    [ isOpen |-> FALSE, isAnimating |-> FALSE,
      tween |-> "none", tweenSaw |-> FALSE,
      timerSet |-> FALSE, timerSaw |-> FALSE,
      openDoorSaw |-> FALSE, clickSaw |-> FALSE,
      accepted |-> 0, entered |-> 0 ]

Init ==
    /\ scene = InitScene
    /\ lastOp = Op("init", NULL)
    /\ script = NoScript
    /\ inFlight = FALSE
    /\ timeline = NoTimeline
    /\ hasPositioned = FALSE
    /\ camera = NULL
    /\ timers = {}
    /\ door = NULL
    /\ roomReady = FALSE
    /\ isMenuOpen = FALSE
    /\ section = ClosedDoor
    /\ perf = Undetected
    /\ positioned = 0
    /\ rooms = [r \in Registry |-> Unmounted]
    /\ goal = NULL

Next ==
    \/ EnterRoom
    \/ ExitRoom
    \/ RequestExit
    \/ ClearExitRequest
    \/ MarkEntered
    \/ OpenOverlay
    \/ CloseOverlay
    \/ TeleportTo
    \/ StartTeleportTransition
    \/ OpenTeleportTransition
    \/ CompleteTeleport
    \/ SignalRoomReady
    \/ FinishPaperOpen
    \/ CancelTeleport

Spec == Init /\ [][Next]_vars

TypeOK ==
    /\ scene.currentRoom \in InputRooms \cup {NULL}
    /\ scene.hasEntered \in BOOLEAN
    /\ scene.exitRequested \in BOOLEAN
    /\ scene.overlayContent \in OverlayItems \cup {NULL}
    /\ scene.teleportTarget \in InputRooms \cup {NULL}
    /\ scene.isTeleporting \in BOOLEAN
    /\ scene.teleportPhase \in TeleportPhase
    /\ scene.pendingDoorClick \in InputRooms \cup {NULL}
    /\ scene.isFastTeleport \in BOOLEAN

\* two callers holding the teleportTo of the same render call it one after
\* the other before the provider re-renders: both calls test the cells that
\* render captured, and the state updates of both are applied in call order
BackToBack == \E first \in InputRooms, second \in InputRooms :
    /\ first # second
    /\ LET c == Closure(scene)
           afterFirst == teleportTo(scene, c, first)
       IN /\ scene' = teleportTo(afterFirst, c, second)
          /\ lastOp' = [Op("backToBack", first) EXCEPT
                            !.afterOverlay = (lastOp.name = "openOverlay")]
          /\ script' = NoScript
          /\ inFlight' = IF \/ ~teleportToRejects(c, first)
                            \/ ~teleportToRejects(c, second)
                         THEN TRUE
                         ELSE inFlight
    /\ isMenuOpen' = NavigationUIEffect(scene, scene', isMenuOpen)
    /\ UNCHANGED sysVars

TickNext ==
    \/ EnterRoom
    \/ ExitRoom
    \/ RequestExit
    \/ ClearExitRequest
    \/ MarkEntered
    \/ OpenOverlay
    \/ CloseOverlay
    \/ TeleportTo
    \/ BackToBack
    \/ StartTeleportTransition
    \/ OpenTeleportTransition
    \/ CompleteTeleport
    \/ SignalRoomReady
    \/ FinishPaperOpen
    \/ CancelTeleport

\* the Store with callers that may also call teleportTo twice within one
\* tick
TickSpec == Init /\ [][TickNext]_vars

\* ---- NavigationUI: the map panel ----
\* the rooms the map offers, in the order of the ROOMS array
ROOMS == <<"about", "gallery", "contact", "studio">>

\* the pins the visitor clicks, within the bound on rooms
PinRooms == { ROOMS[i] : i \in 1..Len(ROOMS) } \cap InputRooms

\* handleRoomClick without its own test
handleRoomClickReturns_Never(c, roomId) == FALSE

\* handleRoomClick returns before calling teleportTo; c holds the
\* currentRoom and isTeleporting of NavigationUI's render
handleRoomClickReturns(c, roomId) == roomId = c.currentRoom \/ c.isTeleporting

\* the visitor clicks a pin of the open map panel: handleRoomClick closes
\* the panel and calls teleportTo
PinClick == \E roomId \in PinRooms :
    /\ scene.hasEntered
    /\ isMenuOpen
    /\ ~handleRoomClickReturns(Closure(scene), roomId)
    /\ LET t == teleportTo(scene, Closure(scene), roomId)
       IN /\ scene' = t
          /\ lastOp' = [Op("handleRoomClick", roomId) EXCEPT
                            !.afterOverlay = (lastOp.name = "openOverlay")]
          /\ script' = ScriptNext(scene, Op("teleportTo", roomId))
          /\ inFlight' = InFlightNext(scene, Op("teleportTo", roomId), t)
          /\ isMenuOpen' = NavigationUIEffect(scene, t, FALSE)
    /\ UNCHANGED sysVars

\* the visitor clicks the hamburger button
ToggleMenu ==
    /\ scene.hasEntered
    /\ isMenuOpen' = ~isMenuOpen
    /\ lastOp' = Op("toggleMenu", NULL)
    /\ UNCHANGED <<scene, script, inFlight>>
    /\ UNCHANGED sysVars

\* the visitor clicks the close button of the panel or the overlay behind it
CloseMenu ==
    /\ isMenuOpen
    /\ isMenuOpen' = FALSE
    /\ lastOp' = Op("closeMenu", NULL)
    /\ UNCHANGED <<scene, script, inFlight>>
    /\ UNCHANGED sysVars

MenuNext ==
    \/ EnterRoom
    \/ ExitRoom
    \/ RequestExit
    \/ ClearExitRequest
    \/ MarkEntered
    \/ OpenOverlay
    \/ CloseOverlay
    \/ TeleportTo
    \/ StartTeleportTransition
    \/ OpenTeleportTransition
    \/ CompleteTeleport
    \/ SignalRoomReady
    \/ FinishPaperOpen
    \/ CancelTeleport
    \/ PinClick
    \/ ToggleMenu
    \/ CloseMenu

\* the Store with NavigationUI's map panel and a visitor who uses it
MenuSpec == Init /\ [][MenuNext]_vars

\* ---- DoorSection: a corridor door ----
\* the most accepted clicks the history counts
MaxEntries == 6

\* handleClick that accepts clicks while the door animates
handleClickReturns_Never(isAnimating) == FALSE

\* handleClick returns at once; isAnimating is the value of its render
handleClickReturns(isAnimating) == isAnimating

\* closeDoor returns at once; sawOpen is the isOpen of the render that
\* created this closeDoor (doorRef is set while the door is mounted)
closeDoorReturns(sawOpen) == ~sawOpen

\* the body of closeDoor past its test: the pending timer is cleared and
\* the close animation starts
closeDoor(d) ==
    [d EXCEPT !.timerSet = FALSE, !.timerSaw = FALSE,
              !.isAnimating = TRUE,
              !.tween = "closing", !.tweenSaw = FALSE]

\* the render after a change of isOpen or isAnimating rebuilds handleClick,
\* which then calls the openDoor of that render
Rerender(d, e) ==
    IF e.isOpen # d.isOpen \/ e.isAnimating # d.isAnimating
    THEN [e EXCEPT !.clickSaw = e.openDoorSaw]
    ELSE e

notSection == <<scene, lastOp, script, inFlight,
                timeline, hasPositioned, camera, timers, door, roomReady,
                positioned, rooms, goal, isMenuOpen, perf>>

\* handleClick: the visitor clicks the door
DoorClick ==
    /\ ~handleClickReturns(section.isAnimating)
    /\ IF section.isOpen
       THEN /\ ~closeDoorReturns(section.isOpen)
            /\ section' = Rerender(section, closeDoor(section))
       ELSE /\ section.accepted < MaxEntries
            /\ section' = Rerender(section,
                   [section EXCEPT !.isAnimating = TRUE,
                                   !.tween = "approach",
                                   !.tweenSaw = section.clickSaw,
                                   !.accepted = section.accepted + 1])
    /\ UNCHANGED notSection

\* the camera approach completes and calls openDoor, which starts the
\* door-open animation
ApproachDone ==
    /\ section.tween = "approach"
    /\ section' = Rerender(section,
           [section EXCEPT !.isOpen = TRUE, !.tween = "opening"])
    /\ UNCHANGED notSection

\* the door-open animation completes: onEnter is called and the auto-close
\* timer is set with the closeDoor that this openDoor closes over
OpenAnimDone ==
    /\ section.tween = "opening"
    /\ section' = Rerender(section,
           [section EXCEPT !.isAnimating = FALSE,
                           !.entered = section.entered + 1,
                           !.timerSet = TRUE,
                           !.timerSaw = section.tweenSaw,
                           !.tween = "none", !.tweenSaw = FALSE])
    /\ UNCHANGED notSection

\* autoCloseDelay has elapsed: the timer calls its closeDoor
AutoCloseFires ==
    /\ section.timerSet
    /\ section' =
           IF closeDoorReturns(section.timerSaw)
           THEN [section EXCEPT !.timerSet = FALSE, !.timerSaw = FALSE]
           ELSE Rerender(section, closeDoor(section))
    /\ UNCHANGED notSection

\* the close animation completes
CloseAnimDone ==
    /\ section.tween = "closing"
    /\ section' = Rerender(section,
           [section EXCEPT !.isOpen = FALSE, !.isAnimating = FALSE,
                           !.tween = "none"])
    /\ UNCHANGED notSection

\* the parent renders the door with a new onEnter: openDoor is rebuilt and
\* closes over the closeDoor of this render; handleClick is not rebuilt
NewOnEnter ==
    /\ section.openDoorSaw # section.isOpen
    /\ section' = [section EXCEPT !.openDoorSaw = section.isOpen]
    /\ UNCHANGED notSection

DoorNext ==
    \/ DoorClick
    \/ ApproachDone
    \/ OpenAnimDone
    \/ AutoCloseFires
    \/ CloseAnimDone
    \/ NewOnEnter

\* one corridor door alone
DoorSpec == Init /\ [][DoorNext]_vars

\* ---- PerformanceProvider ----
\* the most downgradeTier calls the history counts
MaxCalls == 5

\* the values of navigator.hardwareConcurrency and navigator.deviceMemory
\* tried (0: undefined)
Cores == {0, 4, 8}
Memory == {0, 4, 8}

\* the tier detectTier computes for a device
detectTier(isMobile, cores, memory) ==
    LET byAgent == IF isMobile THEN "MEDIUM" ELSE "HIGH"
        byCores == IF cores # 0 /\ cores <= 4
                   THEN (IF isMobile THEN "LOW" ELSE "MEDIUM")
                   ELSE byAgent
    IN IF memory # 0 /\ memory <= 4 THEN "LOW" ELSE byCores

\* mutant: the updater of downgradeTier dropping HIGH straight to LOW
downgradeTier_SkipsMedium(current) == "LOW"

\* the updater downgradeTier passes to setTier
downgradeTier(current) ==
    IF current = "HIGH" THEN "MEDIUM"
    ELSE IF current = "MEDIUM" THEN "LOW"
    ELSE "LOW"

notPerf == <<scene, lastOp, script, inFlight,
             timeline, hasPositioned, camera, timers, door, roomReady,
             positioned, rooms, goal, isMenuOpen, section>>

\* the mount effect runs detectTier
DetectTier == \E isMobile \in BOOLEAN, cores \in Cores, memory \in Memory :
    /\ perf.isDetecting
    /\ perf' = [ tier |-> detectTier(isMobile, cores, memory),
                 isDetecting |-> FALSE,
                 isMobile |-> isMobile, cores |-> cores, memory |-> memory,
                 calls |-> 0 ]
    /\ UNCHANGED notPerf

\* a consumer calls downgradeTier
DowngradeTier ==
    /\ perf.calls < MaxCalls
    /\ perf' = [perf EXCEPT !.tier = downgradeTier(perf.tier),
                            !.calls = perf.calls + 1]
    /\ UNCHANGED notPerf

PerfNext ==
    \/ DetectTier
    \/ DowngradeTier

\* the PerformanceProvider alone
PerfSpec == Init /\ [][PerfNext]_vars

\* ---- the composed system: Store, PaperTransition, TeleportRoom, map,
\* ---- door mechanism and destination room ----
\* the most positionings the history variable counts
MaxPositioned == 2

\* a name every object inherits from Object.prototype: DOOR_POSITIONS_Z is
\* an object literal, so a lookup of such a name finds the inherited
\* property and is not undefined
ObjectPrototypeKeys == {"constructor"}

\* room identifiers DOOR_POSITIONS_Z has no key for
OffRegistry == {"attic"} \cup ObjectPrototypeKeys

\* DOOR_POSITIONS_Z[target] !== undefined
Resolves(target) == target \in Registry \cup ObjectPrototypeKeys

\* PaperTransition's effect leaving a running timeline alive when the new
\* phase starts none
PaperTransitionEffect_NoKill(s, t, tl) ==
    IF t.teleportPhase = s.teleportPhase /\ t.teleportTarget = s.teleportTarget
    THEN tl
    ELSE IF t.teleportPhase = "closing"
         THEN [kind |-> "closing", target |-> NULL]
    ELSE IF t.teleportPhase = "opening"
         THEN [kind |-> "opening", target |-> t.teleportTarget]
    ELSE tl

\* PaperTransition's effect after the store went from s to t while the
\* timeline was tl: it runs when teleportPhase or completeTeleport (which is
\* rebuilt when teleportTarget changes) changed, kills the timeline, and
\* builds the one of the new phase; the 'opening' timeline's onComplete
\* captures the completeTeleport of that render
PaperTransitionEffect(s, t, tl) ==
    IF t.teleportPhase = s.teleportPhase /\ t.teleportTarget = s.teleportTarget
    THEN tl
    ELSE IF t.teleportPhase = "closing"
         THEN [kind |-> "closing", target |-> NULL]
    ELSE IF t.teleportPhase = "opening"
         THEN [kind |-> "opening", target |-> t.teleportTarget]
    ELSE NoTimeline

\* TeleportRoom's effect runs when one of its dependencies changed
TeleportRoomEffectRuns(s, t) ==
    \/ t.teleportPhase # s.teleportPhase
    \/ t.teleportTarget # s.teleportTarget
    \/ t.isTeleporting # s.isTeleporting
    \/ t.isFastTeleport # s.isFastTeleport

\* the condition of TeleportRoom's effect without its one-shot guard
ShouldPosition_NoGuard(t, flag) ==
    t.teleportPhase = "teleporting" /\ t.teleportTarget # NULL

\* the condition of TeleportRoom's effect; flag is hasPositioned.current
ShouldPosition(t, flag) ==
    t.teleportPhase = "teleporting" /\ t.teleportTarget # NULL /\ ~flag

\* the effect run after the store went from s to t puts the camera at the
\* position computed from DOOR_POSITIONS_Z[t.teleportTarget]
Positions(s, t) ==
    /\ TeleportRoomEffectRuns(s, t)
    /\ ShouldPosition(t, hasPositioned)
    /\ Resolves(t.teleportTarget)

\* TeleportRoom's effect that never resets hasPositioned
ResetsGuard_Never(s, t) == FALSE

\* the effect run after the store went from s to t ends with
\* hasPositioned.current = false
ResetsGuard(s, t) == TeleportRoomEffectRuns(s, t) /\ ~t.isTeleporting

\* one event of the composed system: a Store operation op takes the store
\* to t, the provider re-renders and the effects of PaperTransition and
\* TeleportRoom run; tl and tm are the timeline and the timers the event
\* itself left behind
SysStep(op, t, tl, tm) ==
    /\ Step(op, t)
    /\ timeline' = PaperTransitionEffect(scene, t, tl)
    /\ camera' = IF Positions(scene, t) THEN t.teleportTarget ELSE camera
    /\ timers' = IF Positions(scene, t)
                 THEN tm \cup {[fast |-> t.isFastTeleport,
                                target |-> t.teleportTarget]}
                 ELSE tm
    /\ hasPositioned' =
           IF ResetsGuard(scene, t)
           THEN FALSE
           ELSE hasPositioned \/ Positions(scene, t)
    /\ positioned' =
           IF op.name = "teleportTo" /\ Accepted(scene, op.arg) THEN 0
           ELSE IF Positions(scene, t) THEN Min(positioned + 1, MaxPositioned)
           ELSE positioned
    /\ goal' = IF op.name = "teleportTo" /\ Accepted(scene, op.arg)
               THEN op.arg
               ELSE goal
    /\ isMenuOpen' = NavigationUIEffect(scene, t, isMenuOpen)
    /\ UNCHANGED <<rooms, section, perf>>

\* the visitor clicks the entrance doors
EntranceClick ==
    /\ ~scene.hasEntered
    /\ SysStep(Op("markEntered", NULL), markEntered(scene), timeline, timers)
    /\ UNCHANGED <<door, roomReady>>

\* NavigationUI.handleRoomClick: the visitor clicks a room on the map
MapClick == \E roomId \in InputRooms :
    /\ scene.hasEntered
    /\ ~handleRoomClickReturns(Closure(scene), roomId)
    /\ SysStep(Op("teleportTo", roomId),
               teleportTo(scene, Closure(scene), roomId), timeline, timers)
    /\ UNCHANGED <<door, roomReady>>

\* PaperTransition: the 'closing' timeline completes
CoverAnimDone ==
    /\ timeline.kind = "closing"
    /\ SysStep(Op("startTeleportTransition", NULL),
               startTeleportTransition(scene), NoTimeline, timers)
    /\ UNCHANGED <<door, roomReady>>

\* PaperTransition: the 'opening' timeline completes
RevealAnimDone ==
    /\ timeline.kind = "opening"
    /\ SysStep(Op("completeTeleport", NULL),
               completeTeleport(scene, [teleportTarget |-> timeline.target]),
               NoTimeline, timers)
    /\ UNCHANGED <<door, roomReady>>

\* TeleportRoom: a timer set after positioning fires, with the
\* isFastTeleport and the completeTeleport of the render that set it
TimerFires == \E tm \in timers :
    /\ IF tm.fast
       THEN SysStep(Op("completeTeleport", NULL),
                    completeTeleport(scene, [teleportTarget |-> tm.target]),
                    timeline, timers \ {tm})
       ELSE SysStep(Op("openTeleportTransition", NULL),
                    openTeleportTransition(scene), timeline, timers \ {tm})
    /\ UNCHANGED <<door, roomReady>>

\* door mechanism: it picks pendingDoorClick up, starts the door-open
\* visual and activates the room behind the door
DoorStart ==
    /\ scene.pendingDoorClick \in Registry
    /\ door = NULL
    /\ door' = scene.pendingDoorClick
    /\ roomReady' = TRUE
    /\ UNCHANGED <<scene, lastOp, script, inFlight,
                   timeline, hasPositioned, camera, timers, positioned, rooms,
                   goal, isMenuOpen, section, perf>>

\* door mechanism: the door-open visual is over, it enters the room
DoorDone ==
    /\ door # NULL
    /\ SysStep(Op("enterRoom", door), enterRoom(scene, door), timeline, timers)
    /\ door' = NULL
    /\ UNCHANGED roomReady

\* destination room: it has rendered its first frames
RoomReady ==
    /\ roomReady
    /\ SysStep(Op("signalRoomReady", NULL),
               signalRoomReady(scene, Closure(scene)), timeline, timers)
    /\ roomReady' = FALSE
    /\ UNCHANGED door

\* the visitor walks through a corridor door; the room behind it is
\* activated and will report its first frames
DoorEnter == \E roomId \in InputRooms :
    /\ scene.hasEntered
    /\ scene.currentRoom = NULL
    /\ SysStep(Op("enterRoom", roomId), enterRoom(scene, roomId),
               timeline, timers)
    /\ roomReady' = TRUE
    /\ UNCHANGED door

\* the room's exit animation is over
RoomExit ==
    /\ scene.currentRoom # NULL
    /\ SysStep(Op("exitRoom", NULL), exitRoom(scene), timeline, timers)
    /\ UNCHANGED <<door, roomReady>>

\* error recovery resets the teleport
Recovery ==
    /\ scene.isTeleporting
    /\ SysStep(Op("cancelTeleport", NULL), cancelTeleport(scene),
               timeline, timers)
    /\ UNCHANGED <<door, roomReady>>

SysNext ==
    \/ EntranceClick
    \/ MapClick
    \/ CoverAnimDone
    \/ RevealAnimDone
    \/ TimerFires
    \/ DoorStart
    \/ DoorDone
    \/ RoomReady
    \/ DoorEnter
    \/ RoomExit
    \/ Recovery

\* the composed system with a visitor who also walks and with recovery
SysSpec == Init /\ [][SysNext]_vars

LiveNext ==
    \/ EntranceClick
    \/ MapClick
    \/ CoverAnimDone
    \/ RevealAnimDone
    \/ TimerFires
    \/ DoorStart
    \/ DoorDone
    \/ RoomReady

\* the composed system of the teleport loop alone: the visitor only uses
\* the map, nothing cancels, and every started animation, timer, door
\* visual and room activation completes
LiveSpec ==
    /\ Init
    /\ [][LiveNext]_vars
    /\ WF_vars(CoverAnimDone)
    /\ WF_vars(RevealAnimDone)
    /\ WF_vars(TimerFires)
    /\ WF_vars(DoorStart)
    /\ WF_vars(DoorDone)
    /\ WF_vars(RoomReady)

\* some caller other than the map calls teleportTo with an identifier the
\* registry has no key for
DirectTeleport == \E roomId \in OffRegistry :
    /\ Accepted(scene, roomId)
    /\ SysStep(Op("teleportTo", roomId),
               teleportTo(scene, Closure(scene), roomId), timeline, timers)
    /\ UNCHANGED <<door, roomReady>>

CallNext ==
    \/ EntranceClick
    \/ MapClick
    \/ DirectTeleport
    \/ CoverAnimDone
    \/ RevealAnimDone
    \/ TimerFires
    \/ DoorStart
    \/ DoorDone
    \/ RoomReady
    \/ DoorEnter
    \/ RoomExit
    \/ Recovery

\* the composed system with teleportTo also called for identifiers that
\* are not in the registry
CallSpec == Init /\ [][CallNext]_vars

\* ---- the room components (Gallery, Studio, About, Contact) ----
\* frames a mounted room renders at most
MaxFrames == 7

FRAMES_TO_WAIT == 5

\* mutant: the frame callback without the hasSignaledReady latch
useFrame_NoLatch(c) ==
    IF c.frameCount + 1 >= FRAMES_TO_WAIT
    THEN [c EXCEPT !.frameCount = c.frameCount + 1,
                   !.hasSignaledReady = TRUE,
                   !.readyCalls = c.readyCalls + 1,
                   !.frames = c.frames + 1]
    ELSE [c EXCEPT !.frameCount = c.frameCount + 1,
                   !.frames = c.frames + 1]

\* the ready detection in a room's useFrame callback; frames and
\* readyCalls are history: frames rendered and onReady calls since mount
useFrame(c) ==
    IF c.hasSignaledReady
    THEN [c EXCEPT !.frames = c.frames + 1]
    ELSE IF c.frameCount + 1 >= FRAMES_TO_WAIT
    THEN [c EXCEPT !.frameCount = c.frameCount + 1,
                   !.hasSignaledReady = TRUE,
                   !.readyCalls = c.readyCalls + 1,
                   !.frames = c.frames + 1]
    ELSE [c EXCEPT !.frameCount = c.frameCount + 1,
                   !.frames = c.frames + 1]

\* everything but the room components
notRooms == <<scene, lastOp, script, inFlight,
              timeline, hasPositioned, camera, timers, door, roomReady,
              positioned, goal, isMenuOpen, section, perf>>

\* a room component mounts: its refs start at their initial values
RoomMount == \E r \in Registry :
    /\ ~rooms[r].mounted
    /\ rooms' = [rooms EXCEPT ![r] = [Unmounted EXCEPT !.mounted = TRUE]]
    /\ UNCHANGED notRooms

\* a mounted room renders a frame
RoomFrame == \E r \in Registry :
    /\ rooms[r].mounted
    /\ rooms[r].frames < MaxFrames
    /\ rooms' = [rooms EXCEPT ![r] = useFrame(rooms[r])]
    /\ UNCHANGED notRooms

\* a room component unmounts
RoomUnmount == \E r \in Registry :
    /\ rooms[r].mounted
    /\ rooms' = [rooms EXCEPT ![r] = Unmounted]
    /\ UNCHANGED notRooms

RoomNext ==
    \/ RoomMount
    \/ RoomFrame
    \/ RoomUnmount

\* the room components alone
RoomSpec == Init /\ [][RoomNext]_vars

SysTypeOK ==
    /\ TypeOK
    /\ timeline.kind \in {"none", "closing", "opening"}
    /\ timeline.target \in InputRooms \cup {NULL}
    /\ hasPositioned \in BOOLEAN
    /\ camera \in InputRooms \cup {NULL}
    /\ timers \subseteq [fast : BOOLEAN, target : InputRooms]
    /\ door \in InputRooms \cup {NULL}
    /\ roomReady \in BOOLEAN
    /\ positioned \in 0..MaxPositioned

\* ---- properties ----
\* the step is a call of the Store operation name
IsOp(name) == lastOp'.name = name

\* the step is a teleportTo call that passes the guard
AcceptedTeleportStep == IsOp("teleportTo") /\ Accepted(scene, lastOp'.arg)

\* C1: a teleportTo call made while isTeleporting is true, whatever its
\* room, leaves every field of the store unchanged (so does any sequence
\* of such calls).
C1_RejectWhileTeleporting ==
    [][(IsOp("teleportTo") /\ scene.isTeleporting) => scene' = scene]_vars

\* a teleportTo for another room than the target was just refused in the
\* teleporting phase
C1_Witness ==
    /\ lastOp.name = "teleportTo"
    /\ scene.isTeleporting
    /\ scene.teleportPhase = "teleporting"
    /\ lastOp.arg \notin {scene.currentRoom, scene.teleportTarget}

\* C2: teleportTo(target) with target = currentRoom (null in the corridor
\* included) changes no field of the store.
C2_SameRoomNoOp ==
    [][(IsOp("teleportTo") /\ lastOp'.arg = scene.currentRoom)
          => scene' = scene]_vars

\* teleportTo(currentRoom) was just called inside a room with no teleport
\* running, so only the same-room test can have refused it
C2_Witness ==
    /\ lastOp.name = "teleportTo"
    /\ lastOp.arg = scene.currentRoom
    /\ scene.currentRoom # NULL
    /\ ~scene.isTeleporting

\* C3: teleportTo(X) from a quiescent store with currentRoom # X, then
\* startTeleportTransition, completeTeleport, signalRoomReady,
\* finishPaperOpen, enterRoom(X) ends with currentRoom = X and all
\* teleport fields cleared.
C3_ScriptedTeleport ==
    script.pos = 6 =>
        /\ scene.currentRoom = script.room
        /\ ~scene.isTeleporting
        /\ scene.teleportPhase = NULL
        /\ scene.pendingDoorClick = NULL
        /\ scene.teleportTarget = NULL

\* the six calls have run, starting from inside another room
C3_Witness ==
    /\ script.pos = 6
    /\ script.room \in InputRooms
    /\ lastOp.name = "enterRoom"

\* C4 (as stated): isTeleporting = false implies teleportPhase = None,
\* teleportTarget = null and pendingDoorClick = null.
C4_Original ==
    ~scene.isTeleporting =>
        /\ scene.teleportPhase = NULL
        /\ scene.teleportTarget = NULL
        /\ scene.pendingDoorClick = NULL

\* C4 (amended): isTeleporting goes from true to false only in enterRoom
\* or cancelTeleport; the step leaves pendingDoorClick = null; cancelTeleport
\* also leaves teleportPhase = None and teleportTarget = null, enterRoom
\* leaves both as they were.
C4_Amended ==
    [][(scene.isTeleporting /\ ~scene'.isTeleporting) =>
          /\ scene'.pendingDoorClick = NULL
          /\ \/ /\ IsOp("cancelTeleport")
                /\ scene'.teleportPhase = NULL
                /\ scene'.teleportTarget = NULL
             \/ /\ IsOp("enterRoom")
                /\ scene'.teleportPhase = scene.teleportPhase
                /\ scene'.teleportTarget = scene.teleportTarget]_vars

\* enterRoom has just cleared isTeleporting of a teleport whose reveal is
\* still running
C4_Witness ==
    /\ lastOp.name = "enterRoom"
    /\ inFlight
    /\ ~scene.isTeleporting
    /\ scene.teleportPhase = "opening"

\* C5 (as stated): teleportPhase changes only by None->Closing,
\* Closing->Teleporting, Teleporting->Opening, Opening->None, or to None in
\* cancelTeleport.
C5_Original ==
    [][scene'.teleportPhase # scene.teleportPhase =>
          \/ <<scene.teleportPhase, scene'.teleportPhase>> \in
                { <<NULL, "closing">>, <<"closing", "teleporting">>,
                  <<"teleporting", "opening">>, <<"opening", NULL>> }
          \/ IsOp("cancelTeleport") /\ scene'.teleportPhase = NULL]_vars

\* C6: cancelTeleport yields teleportPhase = None, isTeleporting = false,
\* teleportTarget = null, pendingDoorClick = null, isFastTeleport = false
\* and leaves currentRoom, hasEntered, exitRequested, overlayContent alone.
C6_CancelResets ==
    [][IsOp("cancelTeleport") =>
          /\ scene'.teleportPhase = NULL
          /\ ~scene'.isTeleporting
          /\ scene'.teleportTarget = NULL
          /\ scene'.pendingDoorClick = NULL
          /\ ~scene'.isFastTeleport
          /\ scene'.currentRoom = scene.currentRoom
          /\ scene'.hasEntered = scene.hasEntered
          /\ scene'.exitRequested = scene.exitRequested
          /\ scene'.overlayContent = scene.overlayContent]_vars

\* cancelTeleport has just run in a room, with the four other fields set
C6_Witness ==
    /\ lastOp.name = "cancelTeleport"
    /\ scene.currentRoom # NULL
    /\ scene.hasEntered
    /\ scene.exitRequested
    /\ scene.overlayContent # NULL

\* C7 (as stated): a teleportTo is accepted only when no accepted teleport
\* is still in flight, and while one is in flight teleportTarget is not
\* replaced by another room.
C7_Original ==
    [][inFlight =>
          /\ ~AcceptedTeleportStep
          /\ scene'.teleportTarget \in {scene.teleportTarget, NULL}]_vars

\* C8 (as stated): overlayContent is null whenever teleportPhase # None.
C8_Original == scene.teleportPhase # NULL => scene.overlayContent = NULL

\* C8 (amended): an accepted teleportTo and every room change (enterRoom,
\* exitRoom) leave overlayContent = null; the other phase transitions
\* (startTeleportTransition, openTeleportTransition, signalRoomReady,
\* finishPaperOpen, cancelTeleport) leave overlayContent as it was.
C8_Amended ==
    [][/\ (AcceptedTeleportStep \/ IsOp("enterRoom") \/ IsOp("exitRoom"))
             => scene'.overlayContent = NULL
       /\ lastOp'.name \in { "startTeleportTransition", "openTeleportTransition",
                             "signalRoomReady", "finishPaperOpen",
                             "cancelTeleport" }
             => scene'.overlayContent = scene.overlayContent]_vars

\* a phase transition has just run with an overlay open, and the overlay
\* is still there
C8_Witness ==
    /\ lastOp.name = "startTeleportTransition"
    /\ lastOp.afterOverlay
    /\ scene.teleportPhase = "teleporting"
    /\ scene.isTeleporting
    /\ scene.overlayContent # NULL

\* C9 (as stated): openOverlay(X) followed immediately by teleportTo(Y)
\* results in overlayContent = null.
C9_Original ==
    [][(lastOp.name = "openOverlay" /\ IsOp("teleportTo"))
          => scene'.overlayContent = NULL]_vars

\* C9 (amended): openOverlay(X) followed immediately by teleportTo(Y)
\* results in overlayContent = null when the teleportTo is accepted
\* (isTeleporting false and Y # currentRoom), and leaves overlayContent = X
\* when it is refused.
C9_Amended ==
    [][(lastOp.name = "openOverlay" /\ IsOp("teleportTo")) =>
          IF Accepted(scene, lastOp'.arg)
          THEN scene'.overlayContent = NULL
          ELSE scene'.overlayContent = lastOp.arg]_vars

\* an accepted teleportTo has just followed an openOverlay
C9_Witness ==
    /\ lastOp.name = "teleportTo"
    /\ lastOp.afterOverlay
    /\ scene.teleportPhase = "closing"
    /\ scene.teleportTarget = lastOp.arg
    /\ scene.isFastTeleport
    /\ scene.overlayContent = NULL

\* C10: teleportTo(target) with isTeleporting false and target # currentRoom
\* sets teleportTarget = target, isTeleporting, isFastTeleport,
\* teleportPhase = Closing, overlayContent = null and leaves currentRoom,
\* hasEntered, exitRequested and pendingDoorClick unchanged.
C10_TeleportAccepted ==
    [][(IsOp("teleportTo") /\ ~scene.isTeleporting
            /\ lastOp'.arg # scene.currentRoom) =>
          /\ scene'.teleportTarget = lastOp'.arg
          /\ scene'.isTeleporting
          /\ scene'.isFastTeleport
          /\ scene'.teleportPhase = "closing"
          /\ scene'.overlayContent = NULL
          /\ scene'.currentRoom = scene.currentRoom
          /\ scene'.hasEntered = scene.hasEntered
          /\ scene'.exitRequested = scene.exitRequested
          /\ scene'.pendingDoorClick = scene.pendingDoorClick]_vars

\* scenario A: teleportTo("gallery") has just been accepted in the corridor
C10_Witness ==
    /\ lastOp.name = "teleportTo"
    /\ lastOp.arg = "gallery"
    /\ scene.currentRoom = NULL
    /\ scene.hasEntered
    /\ scene.teleportTarget = "gallery"
    /\ scene.isTeleporting
    /\ scene.isFastTeleport
    /\ scene.teleportPhase = "closing"

C12_SignalRoomReady ==
    [][IsOp("signalRoomReady") =>
          /\ scene' = IF scene.isFastTeleport
                      THEN [scene EXCEPT !.teleportPhase = "opening",
                                         !.isFastTeleport = FALSE]
                      ELSE scene
          /\ signalRoomReady(scene', Closure(scene')) = scene']_vars

\* scenario D: signalRoomReady has just opened the paper of a fast teleport
C12_Witness ==
    /\ lastOp.name = "signalRoomReady"
    /\ script.pos = 4
    /\ scene.teleportPhase = "opening"
    /\ ~scene.isFastTeleport
    /\ scene.isTeleporting

\* C13: enterRoom(room) results in pendingDoorClick = null, currentRoom =
\* room, exitRequested = false, overlayContent = null, isTeleporting = false,
\* whatever pendingDoorClick was.
C13_EnterRoomEffect ==
    [][IsOp("enterRoom") =>
          /\ scene'.pendingDoorClick = NULL
          /\ scene'.currentRoom = lastOp'.arg
          /\ ~scene'.exitRequested
          /\ scene'.overlayContent = NULL
          /\ ~scene'.isTeleporting]_vars

\* enterRoom has just consumed the pendingDoorClick left by the scripted
\* teleport, coming from another room
C13_Witness ==
    /\ script.pos = 6
    /\ lastOp.name = "enterRoom"
    /\ scene.currentRoom = lastOp.arg
    /\ scene.pendingDoorClick = NULL
    /\ scene.hasEntered

\* C14: enterRoom leaves teleportPhase (Opening included), teleportTarget,
\* isFastTeleport and hasEntered as they were.
C14_EnterRoomFrame ==
    [][IsOp("enterRoom") =>
          /\ scene'.teleportPhase = scene.teleportPhase
          /\ scene'.teleportTarget = scene.teleportTarget
          /\ scene'.isFastTeleport = scene.isFastTeleport
          /\ scene'.hasEntered = scene.hasEntered]_vars

\* enterRoom has just run while the reveal is in progress, and the phase is
\* still opening
C14_Witness ==
    /\ lastOp.name = "enterRoom"
    /\ scene.teleportPhase = "opening"
    /\ inFlight
    /\ scene.hasEntered
    /\ scene.teleportTarget = NULL
    /\ scene.currentRoom = lastOp.arg

\* the operations that only move the teleport along
PhaseOps == { "startTeleportTransition", "openTeleportTransition",
              "completeTeleport", "signalRoomReady", "finishPaperOpen" }

\* C15 (as stated): isTeleporting is true whenever teleportPhase is Closing,
\* Teleporting or Opening, and it goes from true to false only in enterRoom.
C15_Original ==
    /\ [](scene.teleportPhase # NULL => scene.isTeleporting)
    /\ [][(scene.isTeleporting /\ ~scene'.isTeleporting)
             => IsOp("enterRoom")]_vars

\* C15 (amended): no phase operation changes isTeleporting, so it stays true
\* from Closing through Opening until enterRoom or cancelTeleport runs; these
\* two are the only steps that take it from true to false, and enterRoom
\* leaves the phase as it is (it may still be Opening).
C15_Amended ==
    [][/\ lastOp'.name \in PhaseOps => scene'.isTeleporting = scene.isTeleporting
       /\ (scene.isTeleporting /\ ~scene'.isTeleporting)
             => (IsOp("enterRoom") \/ IsOp("cancelTeleport"))
       /\ IsOp("enterRoom") => scene'.teleportPhase = scene.teleportPhase]_vars

\* the teleport has gone from closing to opening and isTeleporting is still
\* true
C15_Witness ==
    /\ script.pos = 4
    /\ scene.teleportPhase = "opening"
    /\ scene.isTeleporting
    /\ scene.pendingDoorClick # NULL

\* C16: hasEntered is false initially, markEntered sets it, and once true
\* it is never false again.
C16_HasEnteredLatch ==
    /\ ~scene.hasEntered
    /\ [][/\ scene.hasEntered => scene'.hasEntered
          /\ IsOp("markEntered") => scene'.hasEntered]_vars

\* hasEntered has survived a room entry, a teleport cancel and an exit
C16_Witness ==
    /\ scene.hasEntered
    /\ lastOp.name = "exitRoom"
    /\ scene.currentRoom = NULL
    /\ scene.teleportPhase # NULL

\* C17 (as stated): a pendingDoorClick that is set is cleared only by room
\* entry (enterRoom).
C17_Original ==
    [][(scene.pendingDoorClick # NULL
            /\ scene'.pendingDoorClick # scene.pendingDoorClick)
          => IsOp("enterRoom")]_vars

\* C17 (amended): a pendingDoorClick that is set changes only in enterRoom
\* or cancelTeleport (to null) or in a further completeTeleport (to the
\* teleportTarget of that moment); enterRoom always leaves it null, so one
\* value is handed to room entry at most once.
C17_Amended ==
    [][/\ (scene.pendingDoorClick # NULL
              /\ scene'.pendingDoorClick # scene.pendingDoorClick)
          => \/ IsOp("enterRoom") /\ scene'.pendingDoorClick = NULL
             \/ IsOp("cancelTeleport") /\ scene'.pendingDoorClick = NULL
             \/ /\ IsOp("completeTeleport")
                /\ scene'.pendingDoorClick = scene.teleportTarget
       /\ IsOp("enterRoom") => scene'.pendingDoorClick = NULL]_vars

\* the room entry of the scripted teleport has just consumed the
\* pendingDoorClick for its own room
C17_Witness ==
    /\ script.pos = 6
    /\ lastOp.name = "enterRoom"
    /\ lastOp.arg = script.room
    /\ scene.pendingDoorClick = NULL
    /\ ~inFlight

\* the teleport waits with the cover closed
Waiting(s) == s.teleportPhase = "teleporting" /\ s.isTeleporting

\* C18 (as stated): while the store waits in Teleporting, no step other than
\* signalRoomReady or cancelTeleport takes it out of Teleporting or makes
\* isTeleporting false, and every teleportTo is rejected.
C18_Original ==
    [][(Waiting(scene) /\ ~IsOp("signalRoomReady") /\ ~IsOp("cancelTeleport"))
          => Waiting(scene')]_vars

\* C18 (amended): the store has no timeout: teleportPhase stays Teleporting
\* until signalRoomReady, cancelTeleport, openTeleportTransition,
\* finishPaperOpen or an accepted teleportTo runs; isTeleporting stays true,
\* and every teleportTo is rejected, until enterRoom or cancelTeleport runs
\* (enterRoom clears isTeleporting with the cover still closed).
C18_Amended ==
    [][scene.teleportPhase = "teleporting" =>
          /\ (/\ lastOp'.name \notin { "signalRoomReady", "cancelTeleport",
                                       "openTeleportTransition", "finishPaperOpen" }
              /\ ~AcceptedTeleportStep)
                => scene'.teleportPhase = "teleporting"
          /\ (scene.isTeleporting /\ ~IsOp("enterRoom") /\ ~IsOp("cancelTeleport"))
                => /\ scene'.isTeleporting
                   /\ IsOp("teleportTo") => scene' = scene]_vars

\* the room never signalled: enterRoom has cleared isTeleporting and the
\* phase is still teleporting, in fast mode
C18_Witness ==
    /\ lastOp.name = "enterRoom"
    /\ scene.teleportPhase = "teleporting"
    /\ ~scene.isTeleporting
    /\ scene.isFastTeleport
    /\ scene.teleportTarget = NULL
    /\ scene.currentRoom = lastOp.arg

\* a teleportTo(r) call has just been accepted
JustAccepted(r) ==
    /\ lastOp.name = "teleportTo"
    /\ lastOp.arg = r
    /\ scene.teleportTarget = r
    /\ scene.teleportPhase = "closing"

\* the teleport to r is over: every teleport field is cleared and the
\* visitor is in room r
Arrived(r) ==
    /\ scene.teleportPhase = NULL
    /\ ~scene.isTeleporting
    /\ scene.teleportTarget = NULL
    /\ scene.pendingDoorClick = NULL
    /\ scene.currentRoom = r

\* C19: in the composed system, when every started animation, timer, door
\* visual and room activation completes and nothing cancels, every accepted
\* teleportTo(X) for a room X of the registry leads to a state with
\* teleportPhase None, isTeleporting false, teleportTarget and
\* pendingDoorClick null and currentRoom = X.
C19_Original ==
    \A r \in InputRooms : JustAccepted(r) ~> Arrived(r)

\* the step puts the camera at a door anchor
PositioningStep == positioned' > positioned

\* the step closes the cover completely for a teleport whose target is
\* still set
CoverClosedStep ==
    /\ scene.teleportPhase # "teleporting"
    /\ scene'.teleportPhase = "teleporting"
    /\ scene'.teleportTarget \in Registry

\* the camera is positioned at most once per accepted teleport, and only by
\* a step that ends in the Teleporting phase, at the anchor of the target
AtMostOnceInTeleporting ==
    /\ [](positioned <= 1)
    /\ [][PositioningStep =>
             /\ scene'.teleportPhase = "teleporting"
             /\ camera' = scene'.teleportTarget
             /\ camera' \in Registry]_vars

OffRegistryTeleport(s) ==
    /\ s.teleportPhase = "teleporting"
    /\ s.isTeleporting
    /\ s.teleportTarget \in OffRegistry

\* C21: when teleportPhase = Teleporting and teleportTarget is not a key of
\* the registry, the Camera Positioner leaves the camera alone and sets no
\* timer (so it calls neither completeTeleport nor openTeleportTransition);
\* the teleport stays in Teleporting with isTeleporting true until
\* cancelTeleport, after which the store is quiescent and accepts a new
\* teleportTo.
C21_Original ==
    /\ [][OffRegistryTeleport(scene')
             => (camera' = camera /\ timers' \subseteq timers)]_vars
    /\ [][(OffRegistryTeleport(scene) /\ ~Recovery)
             => OffRegistryTeleport(scene')]_vars
    /\ [][(OffRegistryTeleport(scene) /\ Recovery)
             => /\ Ended(scene')
                /\ scene'.teleportTarget = NULL
                /\ scene'.pendingDoorClick = NULL
                /\ \A r \in InputRooms \ {scene'.currentRoom} :
                       Accepted(scene', r)]_vars

\* the cover animation's completion moves the phase to Teleporting
CoverReported == [][CoverAnimDone => scene'.teleportPhase = "teleporting"]_vars

\* C22: the Transition Controller reports each act to the Store: the
\* completed cover animation calls startTeleportTransition (phase becomes
\* Teleporting), the completed reveal animation calls finishPaperOpen, so
\* teleportPhase becomes None.
C22_Original ==
    /\ CoverReported
    /\ [][RevealAnimDone =>
             (IsOp("finishPaperOpen") /\ scene'.teleportPhase = NULL)]_vars

C25_ExitOperations ==
    /\ [][IsOp("exitRoom") =>
             scene' = [scene EXCEPT !.currentRoom = NULL,
                                    !.exitRequested = FALSE,
                                    !.overlayContent = NULL]]_vars
    /\ [][IsOp("requestExit") =>
             scene' = [scene EXCEPT !.exitRequested = TRUE,
                                    !.overlayContent = NULL]]_vars
    /\ [][IsOp("clearExitRequest") =>
             scene' = [scene EXCEPT !.exitRequested = FALSE]]_vars
    /\ [][(scene'.exitRequested /\ ~scene.exitRequested)
             => IsOp("requestExit")]_vars
    /\ [][(IsOp("clearExitRequest") \/ IsOp("enterRoom") \/ IsOp("exitRoom"))
             => ~scene'.exitRequested]_vars

\* requestExit has just run in a room, over an open overlay, while a
\* teleport is in its Opening phase
C25_Witness ==
    /\ lastOp.name = "requestExit"
    /\ lastOp.afterOverlay
    /\ scene.exitRequested
    /\ scene.overlayContent = NULL
    /\ scene.currentRoom # NULL
    /\ scene.teleportPhase = "opening"
    /\ scene.isTeleporting

C28_Original ==
    [][(scene.teleportPhase # "opening" /\ scene'.teleportPhase = "opening")
          => positioned' = 1]_vars

\* C29: cancellation is final for the Camera Positioner's timer: after
\* cancelTeleport, and until the next accepted teleportTo, pendingDoorClick
\* stays null and teleportPhase stays None, whatever the timer set before
\* the cancellation does when it fires.
C29_Original ==
    ~inFlight => (scene.pendingDoorClick = NULL /\ scene.teleportPhase = NULL)

\* C30: a completion belongs to its own teleport: a non-null
\* pendingDoorClick is the room of the last accepted teleportTo, and the
\* teleportTarget of the teleport in flight is cleared only by
\* cancelTeleport or by a completeTeleport that hands that same target to
\* pendingDoorClick, and replaced only by an accepted teleportTo.
C30_Original ==
    /\ [](scene.pendingDoorClick # NULL => scene.pendingDoorClick = goal)
    /\ [][(scene.teleportTarget # NULL
             /\ scene'.teleportTarget # scene.teleportTarget)
          => \/ Recovery
             \/ MapClick
             \/ /\ scene'.teleportTarget = NULL
                /\ scene'.pendingDoorClick = scene.teleportTarget]_vars

\* ---- C31 ----
\* C31: no mode bit is left behind: whenever isTeleporting is false and
\* teleportPhase is None, isFastTeleport is false; so a signalRoomReady that
\* arrives then (for instance after an ordinary door entry) changes no field
\* of the store and starts no reveal animation
C31_NoModeBitLeft ==
    /\ [](Ended(scene) => ~scene.isFastTeleport)
    /\ [][RoomReady /\ Ended(scene)
          => scene' = scene /\ timeline' = timeline]_vars

\* the room entered through a door by hand has reported ready while no
\* teleport was in flight
C31_Witness ==
    /\ lastOp.name = "signalRoomReady"
    /\ Ended(scene)
    /\ scene.currentRoom # NULL
    /\ goal = NULL
    /\ ~roomReady

\* ---- C32 ----
\* C32: currentRoom changes only in enterRoom and exitRoom steps: every
\* other Store operation leaves currentRoom, and with it the derived
\* isInRoom, unchanged
C32_CurrentRoomFrame ==
    [][(IsOp("enterRoom") \/ IsOp("exitRoom"))
       \/ (/\ scene'.currentRoom = scene.currentRoom
           /\ isInRoom(scene') = isInRoom(scene))]_vars

\* completeTeleport has just run for a teleport started inside a room: the
\* visitor is still in the room the teleport left from
C32_Witness ==
    /\ lastOp.name = "completeTeleport"
    /\ isInRoom(scene)
    /\ scene.pendingDoorClick # NULL
    /\ scene.pendingDoorClick # scene.currentRoom
    /\ scene.isTeleporting

\* ---- C33 ----
\* C33 (as stated): when teleportTo(X) and then teleportTo(Y), Y # X, are
\* called through the same callback with no re-render in between and the
\* first call is accepted, the second is rejected and teleportTarget ends
\* as X
C33_Original ==
    [][(IsOp("backToBack") /\ Accepted(scene, lastOp'.arg))
       => scene'.teleportTarget = lastOp'.arg]_vars

\* ---- C34 ----
\* a pin click calls a teleportTo that the Store accepts, for a room of the
\* registry, and leaves the panel closed
PinClickAccepted ==
    [][IsOp("handleRoomClick")
       => /\ Accepted(scene, lastOp'.arg)
          /\ scene'.teleportTarget = lastOp'.arg
          /\ scene'.isTeleporting
          /\ Resolves(lastOp'.arg)
          /\ ~isMenuOpen']_vars

\* every room of the map has an anchor in DOOR_POSITIONS_Z
MapRoomsAnchored == \A i \in 1..Len(ROOMS) : ROOMS[i] \in Registry

\* C34 (as stated): the map never issues a teleport the Store rejects, every
\* room of the map has an anchor in the registry, and the map panel is
\* closed in every state in which isTeleporting is true or the visitor is
\* in a room
C34_Original ==
    /\ PinClickAccepted
    /\ []MapRoomsAnchored
    /\ []((scene.isTeleporting \/ isInRoom(scene)) => ~isMenuOpen)

\* C34 (amended): the map never issues a teleport the Store rejects, every
\* room of the map has an anchor in the registry, and the map panel is
\* closed by every step that changes isInRoom or isTeleporting and leaves
\* one of them true; only the hamburger button opens it, at any time after
\* the entrance, also in a room and during a teleport
C34_Amended ==
    /\ PinClickAccepted
    /\ []MapRoomsAnchored
    /\ [][(/\ \/ isInRoom(scene') # isInRoom(scene)
              \/ scene'.isTeleporting # scene.isTeleporting
           /\ isInRoom(scene') \/ scene'.isTeleporting)
          => ~isMenuOpen']_vars
    /\ [][(isMenuOpen' /\ ~isMenuOpen)
          => (IsOp("toggleMenu") /\ scene.hasEntered /\ scene' = scene)]_vars

\* the visitor opened the map inside a room and clicked the pin of another
\* room: the teleport is accepted and the panel is closed
C34_Witness ==
    /\ lastOp.name = "handleRoomClick"
    /\ isInRoom(scene)
    /\ scene.teleportTarget = lastOp.arg
    /\ scene.teleportPhase = "closing"
    /\ ~isMenuOpen

\* ---- C35 ----
\* an entry is under way: a click was accepted and its onEnter is still to
\* come
EntryPending == section.tween \in {"approach", "opening"}

C36_Original ==
    /\ [][AutoCloseFires
          => section'.tween = "closing" /\ section'.isAnimating]_vars
    /\ [][CloseAnimDone
          => ~section'.isOpen /\ ~section'.isAnimating]_vars

\* ---- C37 ----
\* the order HIGH > MEDIUM > LOW
TierRank(tier) == IF tier = "HIGH" THEN 3 ELSE IF tier = "MEDIUM" THEN 2 ELSE 1

\* C37: downgradeTier is monotone and bounded on HIGH > MEDIUM > LOW: each
\* call lowers the tier by exactly one step, leaves LOW as it is and never
\* raises the tier, so after two or more calls in a row the tier is LOW
C37_DowngradeMonotone ==
    /\ [][DowngradeTier
          => /\ perf.tier = "HIGH" => perf'.tier = "MEDIUM"
             /\ perf.tier = "MEDIUM" => perf'.tier = "LOW"
             /\ perf.tier = "LOW" => perf'.tier = "LOW"
             /\ TierRank(perf'.tier) <= TierRank(perf.tier)]_vars
    /\ [](perf.tier \in TIERS)
    /\ [](perf.calls >= 2 => perf.tier = "LOW")

\* a device detected as HIGH has been downgraded twice
C37_Witness ==
    /\ ~perf.isDetecting
    /\ detectTier(perf.isMobile, perf.cores, perf.memory) = "HIGH"
    /\ perf.calls = 2
    /\ perf.tier = "LOW"

====
